---------------------------- MODULE Spec2Model ----------------------------
(***************************************************************************)
(* Model of the Mandelbrot program of src/cpp_guide_9fb8d0.cpp:            *)
(*   - mandelbrot(c): the escape-time loop (lines 30-41), one action per   *)
(*     evaluation of the while condition;                                  *)
(*   - the colour assignment of main (lines 72-84);                        *)
(*   - the pixel-to-plane mapping of main (lines 57-64).                   *)
(*                                                                         *)
(* Spec runs mandelbrot on a point and colours the result; SpecColor runs  *)
(* the colour assignment on every count; SpecMap runs the mapping on       *)
(* every pixel of a viewport; SpecRender runs main, from the rendering of  *)
(* the image to the window loop.                                           *)
(*                                                                         *)
(* Two further programs are modelled, each under its own specification:    *)
(* the sample indexing of the audio visualizer of src/cpp_demo_41ca9b.cpp  *)
(* (SpecAudio) and the accept loop of the TCP server of                    *)
(* src/cpp_guide_9fb8d0.cpp (SpecServer).                                  *)
(*                                                                         *)
(* Numbers.  The program computes in double.  mandelbrot is modelled in    *)
(* exact rational arithmetic on inputs for which every double operation    *)
(* of the program is exact as well: complex values are dyadic rationals    *)
(* (re + i*im)/den with den a power of two no larger than 2^16, where      *)
(* products, sums and the comparison of std::abs with 2.0 carry no         *)
(* rounding error (a magnitude below 2 is below it by at least 2^-18).     *)
(* The mapping is modelled with the rounding of double where it decides    *)
(* the result (see there).                                                 *)
(***************************************************************************)
EXTENDS Integers, Sequences, FiniteSets

VARIABLES
    c,              \* mandelbrot: the parameter c
    z,              \* mandelbrot: the local z
    iterations,     \* mandelbrot: the local iterations; main: the value returned
    maxIterations,  \* the iteration budget (MAX_ITERATIONS of the build)
    zs,             \* history: zs[j+1] is z after j iterations of the loop body
    pc,             \* position in the code
    rgb,            \* main: the locals r, g, b (int)
    color,          \* main: the sf::Color given to setPixel (three Uint8)
    vp,             \* the viewport: RE_START, RE_END, IM_START, IM_END, WIDTH, HEIGHT
    px,             \* main: the loop variable x
    py,             \* main: the loop variable y
    pt,             \* main: the locals re, im
    image,          \* main: the sf::Image, pixel -> colour
    writes,         \* history: pixel -> number of setPixel calls on it
    texture,        \* main: the sf::Texture drawn by the sprite
    windowOpen,     \* main: window.isOpen()
    displays,       \* history: number of window.display() calls, up to MaxFrames
    numSamples,     \* visualizer: sf::Uint32 numSamples
    channels,       \* visualizer: unsigned int channels
    currentSampleIndex, \* visualizer: sf::Uint32 currentSampleIndex
    iLoop,          \* visualizer: the loop variable i
    sampleIndex,    \* visualizer: sf::Uint32 sampleIndex
    readIndex,      \* visualizer: the index of the last read of samples[]
    apc,            \* visualizer: position in the code
    conns,          \* server: the connections accepted so far, in order
    new_socket,     \* server: int new_socket (index in conns, or -1)
    bytes_read,     \* server: ssize_t bytes_read
    serverFdOpen,   \* server: the listening socket server_fd is open
    spc             \* server: position in the code

\* The image, the texture and the window of main.
frameVars == <<image, writes, texture, windowOpen, displays>>

\* The Mandelbrot program.
mandelbrotVars ==
    <<c, z, iterations, maxIterations, zs, pc, rgb, color, vp, px, py, pt,
      frameVars>>

\* The audio visualizer of src/cpp_demo_41ca9b.cpp.
audioVars ==
    <<numSamples, channels, currentSampleIndex, iLoop, sampleIndex, readIndex,
      apc>>

\* The TCP server.
serverVars == <<conns, new_socket, bytes_read, serverFdOpen, spc>>

\* The programs other than the Mandelbrot program.
otherVars == <<audioVars, serverVars>>

vars == <<mandelbrotVars, otherVars>>

---------------------------------------------------------------------------
(* Bounds of the model. *)

\* Budgets up to MaxIter are run on every point of the grid.
MaxIter == 3

\* Points c = (a + i*b)/2 with a, b in -MaxCoord..MaxCoord.
MaxCoord == 5

\* Viewport bounds are drawn from -MaxView..MaxView, in halves.
MaxView == 4

\* Pixel grids up to MaxGrid x MaxGrid.
MaxGrid == 3

\* window.display() calls are counted up to MaxFrames.
MaxFrames == 2

\* Sample counts 0..MaxSamples, besides the large ones.
MaxSamples == 4

\* accept succeeds at most MaxConns times.
MaxConns == 4

(* Program constants. *)

\* const int MAX_ITERATIONS = 100;
MAX_ITERATIONS == 100

---------------------------------------------------------------------------
(* std::complex<double>, on dyadic rationals: (re + i*im)/den. *)

RECURSIVE CNorm(_)
\* The same value on the smallest power-of-two denominator.
CNorm(w) ==
    IF w.den > 1 /\ w.re % 2 = 0 /\ w.im % 2 = 0
    THEN CNorm([re |-> w.re \div 2, im |-> w.im \div 2, den |-> w.den \div 2])
    ELSE w

\* std::complex<double> z = 0;
CZero == [re |-> 0, im |-> 0, den |-> 1]

\* operator* of std::complex
CMul(a, b) ==
    CNorm([re  |-> a.re * b.re - a.im * b.im,
           im  |-> a.re * b.im + a.im * b.re,
           den |-> a.den * b.den])

\* operator+ of std::complex
CAdd(a, b) ==
    CNorm([re  |-> a.re * b.den + b.re * a.den,
           im  |-> a.im * b.den + b.im * a.den,
           den |-> a.den * b.den])

\* |w|^2 and 2^2 on the common denominator den^2
AbsSq(w) == w.re * w.re + w.im * w.im
FourSq(w) == 4 * w.den * w.den

\* A loop that goes on at |w| = 2.
AbsLe2(w) == AbsSq(w) <= FourSq(w)

\* std::abs(w) < 2.0
AbsLt2(w) == AbsSq(w) < FourSq(w)

---------------------------------------------------------------------------
(* mandelbrot *)

\* A loop that goes on while either test holds.
LoopCondOr(zz, it, max) == AbsLt2(zz) \/ it < max

\* A loop that runs once more than the budget.
LoopCondOffByOne(zz, it, max) == AbsLt2(zz) /\ it <= max

\* while (std::abs(z) < 2.0 && iterations < MAX_ITERATIONS)
LoopCond(zz, it, max) == AbsLt2(zz) /\ it < max

\* A body that leaves c out.
LoopBodyNoC(zz, cc) == CMul(zz, zz)

\* z = z * z + c;
LoopBody(zz, cc) == CAdd(CMul(zz, zz), cc)

\* The points mandelbrot is run on: halves in [-MaxCoord/2, MaxCoord/2]^2.
Points ==
    {CNorm([re |-> a, im |-> b, den |-> 2]) :
        a \in -MaxCoord..MaxCoord, b \in -MaxCoord..MaxCoord}

\* The budgets a point is run on.  The orbit of a Gaussian integer stays in
\* the Gaussian integers, so the program's own budget is run on those; the
\* other points are run on the budgets up to MaxIter.  Budgets -1 and 0 are
\* the non-positive configurations.
Budgets(cc) ==
    IF cc.den = 1 THEN (-1..MaxIter) \cup {MAX_ITERATIONS} ELSE -1..MaxIter

\* sf::Color::Black
Black == <<0, 0, 0>>

NoViewport ==
    [hi |-> 0, reStart |-> 0, reEnd |-> 0, imStart |-> 0, imEnd |-> 0,
     width |-> 0, height |-> 0]

NoPoint ==
    [re |-> [hi |-> 0, num |-> 0, den |-> 1],
     im |-> [hi |-> 0, num |-> 0, den |-> 1]]

\* No image yet: sf::Image image; before image.create.
NoFrame ==
    /\ image = <<>>
    /\ writes = <<>>
    /\ texture = <<>>
    /\ windowOpen = TRUE
    /\ displays = 0

\* The audio visualizer is not running.
NoAudio ==
    /\ numSamples = [hi |-> 0, lo |-> 0]
    /\ channels = 1
    /\ currentSampleIndex = [hi |-> 0, lo |-> 0]
    /\ iLoop = 0
    /\ sampleIndex = [hi |-> 0, lo |-> 0]
    /\ readIndex = <<>>
    /\ apc = "off"

\* The TCP server is not running.
NoServer ==
    /\ conns = <<>>
    /\ new_socket = -1
    /\ bytes_read = 0
    /\ serverFdOpen = FALSE
    /\ spc = "off"

\* int mandelbrot(std::complex<double> c) { z = 0; iterations = 0; ...
Init ==
    /\ c \in Points
    /\ maxIterations \in Budgets(c)
    /\ z = CZero
    /\ iterations = 0
    /\ zs = <<CZero>>
    /\ pc = "loop"
    /\ rgb = Black
    /\ color = Black
    /\ vp = NoViewport
    /\ px = 0
    /\ py = 0
    /\ pt = NoPoint
    /\ NoFrame
    /\ NoAudio
    /\ NoServer

\* The loop condition holds: the body runs once.
LoopIter ==
    /\ pc = "loop"
    /\ LoopCond(z, iterations, maxIterations)
    /\ z' = LoopBody(z, c)
    /\ iterations' = iterations + 1
    /\ zs' = Append(zs, z')
    /\ UNCHANGED <<c, maxIterations, pc, rgb, color, vp, px, py, pt>>
    /\ UNCHANGED frameVars
    /\ UNCHANGED otherVars

\* The loop condition fails: return iterations;
LoopExit ==
    /\ pc = "loop"
    /\ ~LoopCond(z, iterations, maxIterations)
    /\ pc' = "ret"
    /\ UNCHANGED <<c, z, iterations, maxIterations, zs, rgb, color, vp, px, py, pt>>
    /\ UNCHANGED frameVars
    /\ UNCHANGED otherVars

---------------------------------------------------------------------------
(* main: the colour of a pixel (lines 72-84) *)

\* The conversion of an int to sf::Uint8, the parameter type of sf::Color.
Uint8(v) == v % 256

\* A channel computed without the modulo.
ChannelNoMod(it, k) == it * k

\* int r = (iterations * 5) % 255;  (g: 10, b: 15)
Channel(it, k) == (it * k) % 255

\* The locals r, g, b of the else branch.
Gradient(it) == <<Channel(it, 5), Channel(it, 10), Channel(it, 15)>>

\* sf::Color(r, g, b)
MakeColor(t) == <<Uint8(t[1]), Uint8(t[2]), Uint8(t[3])>>

\* if (iterations == MAX_ITERATIONS) color = Black; else color = sf::Color(r, g, b);
Colorize ==
    /\ pc = "ret"
    /\ IF iterations = maxIterations
       THEN /\ color' = Black
            /\ rgb' = rgb
       ELSE /\ rgb' = Gradient(iterations)
            /\ color' = MakeColor(rgb')
    /\ pc' = "colored"
    /\ UNCHANGED <<c, z, iterations, maxIterations, zs, vp, px, py, pt>>
    /\ UNCHANGED frameVars
    /\ UNCHANGED otherVars

\* The colour assignment alone, on every count from 0 to the program's budget.
InitColor ==
    /\ iterations \in 0..MAX_ITERATIONS
    /\ maxIterations = MAX_ITERATIONS
    /\ pc = "ret"
    /\ c = CZero
    /\ z = CZero
    /\ zs = <<>>
    /\ rgb = Black
    /\ color = Black
    /\ vp = NoViewport
    /\ px = 0
    /\ py = 0
    /\ pt = NoPoint
    /\ NoFrame
    /\ NoAudio
    /\ NoServer

---------------------------------------------------------------------------
(* main: the mapping of a pixel to the plane (lines 52-64).                *)
(*                                                                         *)
(* A double is hi * 2^52 + (num/den)/2: coordinates are counted in halves  *)
(* (RE_START = -2.0 is -4), and hi places a value in the binade            *)
(* [2^52, 2^53), where the doubles are the integers.  With hi = 0 the      *)
(* values are small rationals, whose rounding (relative 2^-53) is far      *)
(* below a pixel step and is not modelled.  With hi = 1 a result is        *)
(* rounded to the nearest integer, ties to the even one: in halves, to the *)
(* nearest even number, ties to the multiple of 4.                         *)

\* The double nearest to 2^52 + (n/d)/2, as its offset in halves.
RoundBig(n, d) ==
    LET f == n \div (2 * d)
        m == n % (2 * d)
    IN  IF m < d THEN 2 * f
        ELSE IF m > d THEN 2 * f + 2
        ELSE IF f % 2 = 0 THEN 2 * f ELSE 2 * f + 2

\* The rounding of the result of an operation on double.
Fl(r) ==
    IF r.hi = 0 THEN r
    ELSE [hi |-> r.hi, num |-> RoundBig(r.num, r.den), den |-> 1]

\* (double)x
FromInt(n) == [hi |-> 0, num |-> n, den |-> 1]

\* operator+, operator-, operator* and operator/ (divisor > 0) of double
RAdd(a, b) ==
    Fl([hi |-> a.hi + b.hi, num |-> a.num * b.den + b.num * a.den,
        den |-> a.den * b.den])
RSub(a, b) ==
    Fl([hi |-> a.hi - b.hi, num |-> a.num * b.den - b.num * a.den,
        den |-> a.den * b.den])
RMul(a, b) == [hi |-> 0, num |-> a.num * b.num, den |-> a.den * b.den]
RDiv(a, b) == [hi |-> 0, num |-> a.num * b.den, den |-> a.den * b.num]

\* ==, < and <= of double
REq(a, b) == a.hi = b.hi /\ a.num * b.den = b.num * a.den
RLt(a, b) == a.hi < b.hi \/ (a.hi = b.hi /\ a.num * b.den < b.num * a.den)
RLe(a, b) == RLt(a, b) \/ REq(a, b)

\* The division without the cast: x / WIDTH on int.
MapCoordIntDiv(i, n, start, end) ==
    RAdd(start, RMul(FromInt(i \div n), RSub(end, start)))

\* RE_START + (double)x / WIDTH * (RE_END - RE_START)
MapCoord(i, n, start, end) ==
    RAdd(start, RMul(RDiv(FromInt(i), FromInt(n)), RSub(end, start)))

\* A bound of the viewport v, k halves above v.hi * 2^52.
Bound(v, k) == [hi |-> v.hi, num |-> k, den |-> 1]

\* double re = ...; double im = ...;
MapPixelToPoint(x, y, v) ==
    [re |-> MapCoord(x, v.width, Bound(v, v.reStart), Bound(v, v.reEnd)),
     im |-> MapCoord(y, v.height, Bound(v, v.imStart), Bound(v, v.imEnd))]

\* The bounds of one axis, start < end: in halves around 0 (g = 0), or
\* doubles of the binade [2^52, 2^53) (g = 1).
Spans(g) ==
    {s \in (-MaxView..MaxView) \X (-MaxView..MaxView) :
        /\ s[1] < s[2]
        /\ g = 1 => \A k \in {s[1], s[2]} : k >= 0 /\ k % 2 = 0}

\* The viewports: reStart < reEnd, imStart < imEnd, width > 0, height > 0.
\* The program's own (-2.0, 1.0, -1.5, 1.5) is among those of g = 0.
Viewports(g) ==
    {[hi |-> g, reStart |-> r[1], reEnd |-> r[2],
      imStart |-> i[1], imEnd |-> i[2], width |-> w, height |-> h] :
        r \in Spans(g), i \in Spans(g), w \in 1..MaxGrid, h \in 1..MaxGrid}

\* for (int x = 0; x < WIDTH; ++x) for (int y = 0; y < HEIGHT; ++y)
InitMap ==
    /\ \E g \in 0..1 : vp \in Viewports(g)
    /\ px \in 0..(vp.width - 1)
    /\ py \in 0..(vp.height - 1)
    /\ pt = NoPoint
    /\ pc = "map"
    /\ c = CZero
    /\ z = CZero
    /\ zs = <<>>
    /\ iterations = 0
    /\ maxIterations = MAX_ITERATIONS
    /\ rgb = Black
    /\ color = Black
    /\ NoFrame
    /\ NoAudio
    /\ NoServer

MapPixel ==
    /\ pc = "map"
    /\ pt' = MapPixelToPoint(px, py, vp)
    /\ pc' = "mapped"
    /\ UNCHANGED <<c, z, iterations, maxIterations, zs, rgb, color, vp, px, py>>
    /\ UNCHANGED frameVars
    /\ UNCHANGED otherVars

---------------------------------------------------------------------------
(* main: the frame (lines 45-116).  The image is rendered pixel by pixel,  *)
(* x outside and y inside, each pixel through the mapping, mandelbrot and  *)
(* the colour assignment above; then the texture is loaded and the window  *)
(* loop presents it.                                                       *)

RECURSIVE Gcd(_, _)
Gcd(a, b) == IF b = 0 THEN a ELSE Gcd(b, a % b)

\* The rational num/den in lowest terms.
Reduced(r) ==
    LET n == IF r.num < 0 THEN -r.num ELSE r.num
        g == Gcd(n, r.den)
    IN  [num |-> r.num \div g, den |-> r.den \div g]

\* std::complex<double> c(re, im);  re and im are counted in halves.
ToComplex(p) ==
    LET a == Reduced(p.re)
        b == Reduced(p.im)
    IN  CNorm([re |-> a.num * b.den, im |-> b.num * a.den,
               den |-> 2 * a.den * b.den])

\* RE_START = -2.0, RE_END = 1.0, IM_START = -1.5, IM_END = 1.5, in halves,
\* on a grid of w x h pixels.
ProgramViewport(w, h) ==
    [hi |-> 0, reStart |-> -4, reEnd |-> 2, imStart |-> -3, imEnd |-> 3,
     width |-> w, height |-> h]

\* The pixels of the image.
Pixels(v) == (0..(v.width - 1)) \X (0..(v.height - 1))

RECURSIVE Iterate(_, _, _, _)
\* The loop of mandelbrot from z = zz, iterations = it.
Iterate(zz, cc, it, max) ==
    IF LoopCond(zz, it, max)
    THEN Iterate(LoopBody(zz, cc), cc, it + 1, max)
    ELSE it

\* int iterations = mandelbrot(c); and the colour assigned to it.
PixelColor(x, y, v, max) ==
    LET n == Iterate(CZero, ToComplex(MapPixelToPoint(x, y, v)), 0, max)
    IN  IF n = max THEN Black ELSE MakeColor(Gradient(n))

\* sf::RenderWindow window(...); image.create(WIDTH, HEIGHT); x = 0; y = 0.
\* The budgets are those the exact arithmetic carries on the grid's points.
InitRender ==
    /\ \E w \in 1..MaxGrid, h \in 1..MaxGrid : vp = ProgramViewport(w, h)
    /\ maxIterations \in 1..(MaxIter - 1)
    /\ image = [p \in Pixels(vp) |-> Black]
    /\ writes = [p \in Pixels(vp) |-> 0]
    /\ texture = <<>>
    /\ windowOpen = TRUE
    /\ displays = 0
    /\ px = 0
    /\ py = 0
    /\ pt = NoPoint
    /\ pc = "map"
    /\ c = CZero
    /\ z = CZero
    /\ zs = <<>>
    /\ iterations = 0
    /\ rgb = Black
    /\ color = Black
    /\ NoAudio
    /\ NoServer

\* std::complex<double> c(re, im); mandelbrot(c): z = 0; iterations = 0;
CallMandelbrot ==
    /\ pc = "mapped"
    /\ c' = ToComplex(pt)
    /\ z' = CZero
    /\ iterations' = 0
    /\ zs' = <<CZero>>
    /\ pc' = "loop"
    /\ UNCHANGED <<maxIterations, rgb, color, vp, px, py, pt, frameVars>>
    /\ UNCHANGED otherVars

\* ++y, and ++x with y = 0 at the end of a column; past the last column the
\* loops are left.
Advance ==
    IF py + 1 < vp.height
    THEN px' = px /\ py' = py + 1 /\ pc' = "map"
    ELSE IF px + 1 < vp.width
    THEN px' = px + 1 /\ py' = 0 /\ pc' = "map"
    ELSE px' = vp.width /\ py' = vp.height /\ pc' = "texture"

\* setPixel with the coordinates exchanged.
SetPixelSwapped ==
    /\ pc = "colored"
    /\ image' = [image EXCEPT ![<<py, px>>] = color]
    /\ writes' = [writes EXCEPT ![<<py, px>>] = @ + 1]
    /\ Advance
    /\ UNCHANGED <<c, z, iterations, maxIterations, zs, rgb, color, vp, pt,
                   texture, windowOpen, displays>>
    /\ UNCHANGED otherVars

\* image.setPixel(x, y, color); and the step of the two for loops.
SetPixel ==
    /\ pc = "colored"
    /\ image' = [image EXCEPT ![<<px, py>>] = color]
    /\ writes' = [writes EXCEPT ![<<px, py>>] = @ + 1]
    /\ Advance
    /\ UNCHANGED <<c, z, iterations, maxIterations, zs, rgb, color, vp, pt,
                   texture, windowOpen, displays>>
    /\ UNCHANGED otherVars

\* texture.loadFromImage(image); sprite.setTexture(texture);
LoadTexture ==
    /\ pc = "texture"
    /\ texture' = image
    /\ pc' = "isopen"
    /\ UNCHANGED <<c, z, iterations, maxIterations, zs, rgb, color, vp, px, py,
                   pt, image, writes, windowOpen, displays>>
    /\ UNCHANGED otherVars

\* while (window.isOpen())
WindowLoop ==
    /\ pc = "isopen"
    /\ pc' = IF windowOpen THEN "poll" ELSE "exit"
    /\ UNCHANGED <<c, z, iterations, maxIterations, zs, rgb, color, vp, px, py,
                   pt, frameVars>>
    /\ UNCHANGED otherVars

\* while (window.pollEvent(event)) if (event.type == Closed) window.close();
\* one call: an event of type Closed, an event of another type, or none.
PollEvent ==
    /\ pc = "poll"
    /\ \E ev \in {"Closed", "Other", "None"} :
          /\ windowOpen' = IF ev = "Closed" THEN FALSE ELSE windowOpen
          /\ pc' = IF ev = "None" THEN "clear" ELSE "poll"
    /\ UNCHANGED <<c, z, iterations, maxIterations, zs, rgb, color, vp, px, py,
                   pt, image, writes, texture, displays>>
    /\ UNCHANGED otherVars

\* window.clear(); window.draw(sprite); window.display();
Present ==
    /\ pc = "clear"
    /\ displays' = IF displays < MaxFrames THEN displays + 1 ELSE displays
    /\ pc' = "isopen"
    /\ UNCHANGED <<c, z, iterations, maxIterations, zs, rgb, color, vp, px, py,
                   pt, image, writes, texture, windowOpen>>
    /\ UNCHANGED otherVars

---------------------------------------------------------------------------
(* The audio visualizer, src/cpp_demo_41ca9b.cpp: the sample indices of    *)
(* one frame (lines 96-117).  sf::Uint32 values are pairs of 16-bit halves *)
(* [hi, lo], of value hi * 2^16 + lo, and the arithmetic is modulo 2^32.   *)

\* const int MAX_SAMPLES_TO_DISPLAY = 500;
MAX_SAMPLES_TO_DISPLAY == 500

\* 2^16: sf::Uint32 is two halves of this range.
W16 == 65536

\* Conversion to sf::Uint32 of an int in 0..2^31-1.
FromNat(n) == [hi |-> n \div W16, lo |-> n % W16]

\* a + b in sf::Uint32.
UAdd(a, b) ==
    LET s == a.lo + b.lo
    IN  [hi |-> (a.hi + b.hi + s \div W16) % W16, lo |-> s % W16]

\* a - b in sf::Uint32.
USub(a, b) ==
    LET d == a.lo - b.lo
        borrow == IF d < 0 THEN 1 ELSE 0
    IN  [hi |-> (a.hi - b.hi - borrow) % W16, lo |-> d % W16]

\* a * k in 32-bit unsigned arithmetic, k a channel count.
UMul(a, k) ==
    LET q == a.lo * k
    IN  [hi |-> (a.hi * k + q \div W16) % W16, lo |-> q % W16]

\* a < b and a >= b on sf::Uint32.
ULt(a, b) == a.hi < b.hi \/ (a.hi = b.hi /\ a.lo < b.lo)

UGe(a, b) == ~ULt(a, b)

\* No element of samples has been read.
NoIndex == [hi |-> -1, lo |-> -1]

\* music.getSampleCount(): small counts, 2^32 - 1 and 2^31 + 1.
SampleCounts ==
    {FromNat(n) : n \in 0..MaxSamples}
        \cup {[hi |-> W16 - 1, lo |-> W16 - 1], [hi |-> W16 \div 2, lo |-> 1]}

\* static_cast<sf::Uint32>(currentTime.asSeconds() * sampleRate): the
\* product is a float, so that large values are multiples of 256: small
\* indices, 2^32 - 256 and 2^31.
Offsets ==
    {FromNat(n) : n \in 0..(MaxSamples + 1)}
        \cup {[hi |-> W16 - 1, lo |-> W16 - 256], [hi |-> W16 \div 2, lo |-> 0]}

\* The Mandelbrot program is not running.
NoMandelbrot ==
    /\ c = CZero
    /\ z = CZero
    /\ iterations = 0
    /\ maxIterations = MAX_ITERATIONS
    /\ zs = <<>>
    /\ pc = "off"
    /\ rgb = Black
    /\ color = Black
    /\ vp = NoViewport
    /\ px = 0
    /\ py = 0
    /\ pt = NoPoint
    /\ NoFrame

\* samples, numSamples, sampleRate, channels (lines 58-64), at the head of
\* the main loop.
InitAudio ==
    /\ numSamples \in SampleCounts
    /\ channels \in {1, 2}
    /\ currentSampleIndex = FromNat(0)
    /\ iLoop = 0
    /\ sampleIndex = FromNat(0)
    /\ readIndex = NoIndex
    /\ apc = "frame"
    /\ NoMandelbrot
    /\ NoServer

\* currentSampleIndex = ... playing offset ...; the clamp to numSamples - 1;
\* int i = 0.
PlayingOffset ==
    /\ apc = "frame"
    /\ \E o \in Offsets :
          currentSampleIndex' =
              IF UGe(o, numSamples) THEN USub(numSamples, FromNat(1)) ELSE o
    /\ iLoop' = 0
    /\ apc' = "for"
    /\ UNCHANGED <<numSamples, channels, sampleIndex, readIndex>>
    /\ UNCHANGED <<mandelbrotVars, serverVars>>

\* One iteration of the for loop that reads a sample:
\* sampleIndex = currentSampleIndex + i; samples[sampleIndex * channels]; ++i.
DrawSample ==
    /\ apc = "for"
    /\ iLoop < MAX_SAMPLES_TO_DISPLAY
    /\ LET si == UAdd(currentSampleIndex, FromNat(iLoop))
       IN  /\ ULt(si, numSamples)
           /\ sampleIndex' = si
           /\ readIndex' = UMul(si, channels)
    /\ iLoop' = iLoop + 1
    /\ UNCHANGED <<numSamples, channels, currentSampleIndex, apc>>
    /\ UNCHANGED <<mandelbrotVars, serverVars>>

\* if (sampleIndex >= numSamples) break; then the frame is drawn.
BreakLoop ==
    /\ apc = "for"
    /\ iLoop < MAX_SAMPLES_TO_DISPLAY
    /\ LET si == UAdd(currentSampleIndex, FromNat(iLoop))
       IN  /\ UGe(si, numSamples)
           /\ sampleIndex' = si
    /\ apc' = "frame"
    /\ UNCHANGED <<numSamples, channels, currentSampleIndex, iLoop, readIndex>>
    /\ UNCHANGED <<mandelbrotVars, serverVars>>

\* i == MAX_SAMPLES_TO_DISPLAY: the loop ends; then the frame is drawn.
EndLoop ==
    /\ apc = "for"
    /\ iLoop = MAX_SAMPLES_TO_DISPLAY
    /\ apc' = "frame"
    /\ UNCHANGED <<numSamples, channels, currentSampleIndex, iLoop, sampleIndex,
                   readIndex>>
    /\ UNCHANGED <<mandelbrotVars, serverVars>>

---------------------------------------------------------------------------
(* The TCP server of src/cpp_guide_9fb8d0.cpp: the accept loop (lines      *)
(* 210-264).  A connection is named by its rank in the order of accept;    *)
(* conns records, for each, whether its descriptor is open, the close and  *)
(* write calls made on it and whether read succeeded on it.                *)

\* The connection returned by a successful accept.
NewConn == [open |-> TRUE, closes |-> 0, responses |-> 0, readOk |-> FALSE]

\* close(new_socket);
CloseFd(cs, k) == [cs EXCEPT ![k].open = FALSE, ![k].closes = @ + 1]

\* socket, bind and listen have succeeded: "Server listening on port ...".
InitServer ==
    /\ conns = <<>>
    /\ new_socket = -1
    /\ bytes_read = 0
    /\ serverFdOpen = TRUE
    /\ spc = "accept"
    /\ NoMandelbrot
    /\ NoAudio

\* new_socket = accept(...); if (new_socket < 0) continue;
Accept ==
    /\ spc = "accept"
    /\ \/ /\ Len(conns) < MaxConns
          /\ conns' = Append(conns, NewConn)
          /\ new_socket' = Len(conns) + 1
          /\ spc' = "read"
       \/ /\ new_socket' = -1
          /\ spc' = "accept"
          /\ UNCHANGED conns
    /\ UNCHANGED <<bytes_read, serverFdOpen>>
    /\ UNCHANGED <<mandelbrotVars, audioVars>>

\* bytes_read = read(new_socket, ...): an error, end of file or some bytes.
Read ==
    /\ spc = "read"
    /\ \E r \in {-1, 0, 1} :
          /\ bytes_read' = r
          /\ conns' = [conns EXCEPT ![new_socket].readOk = (r >= 0)]
          /\ spc' = IF r < 0 THEN "readfail" ELSE "write"
    /\ UNCHANGED <<new_socket, serverFdOpen>>
    /\ UNCHANGED <<mandelbrotVars, audioVars>>

\* The read-failure path without its close.
ContinueAfterReadFailure ==
    /\ spc = "readfail"
    /\ spc' = "accept"
    /\ UNCHANGED <<conns, new_socket, bytes_read, serverFdOpen>>
    /\ UNCHANGED <<mandelbrotVars, audioVars>>

\* if (bytes_read < 0) { close(new_socket); continue; }
CloseAfterReadFailure ==
    /\ spc = "readfail"
    /\ conns' = CloseFd(conns, new_socket)
    /\ spc' = "accept"
    /\ UNCHANGED <<new_socket, bytes_read, serverFdOpen>>
    /\ UNCHANGED <<mandelbrotVars, audioVars>>

\* write(new_socket, http_response...): the value returned is not looked
\* at; no handler for SIGPIPE is installed, so that a write to a connection
\* reset by the client ends the process, and with it every descriptor.
Write ==
    /\ spc = "write"
    /\ \E out \in {"written", "error", "sigpipe"} :
          IF out = "sigpipe"
          THEN /\ conns' = [k \in DOMAIN conns |->
                              IF k = new_socket
                              THEN [conns[k] EXCEPT !.open = FALSE,
                                                    !.responses = @ + 1]
                              ELSE [conns[k] EXCEPT !.open = FALSE]]
               /\ serverFdOpen' = FALSE
               /\ spc' = "killed"
          ELSE /\ conns' = [conns EXCEPT ![new_socket].responses = @ + 1]
               /\ serverFdOpen' = serverFdOpen
               /\ spc' = "close"
    /\ UNCHANGED <<new_socket, bytes_read>>
    /\ UNCHANGED <<mandelbrotVars, audioVars>>

\* close(new_socket); "Connection closed."
Close ==
    /\ spc = "close"
    /\ conns' = CloseFd(conns, new_socket)
    /\ spc' = "accept"
    /\ UNCHANGED <<new_socket, bytes_read, serverFdOpen>>
    /\ UNCHANGED <<mandelbrotVars, audioVars>>

---------------------------------------------------------------------------
(* Specifications *)

\* One pixel of main from the call of mandelbrot on: lines 67-84.
Next == LoopIter \/ LoopExit \/ Colorize

Spec == Init /\ [][Next]_vars

NextColor == Colorize

SpecColor == InitColor /\ [][NextColor]_vars

NextMap == MapPixel

SpecMap == InitMap /\ [][NextMap]_vars

\* main, from the creation of the image to the end of the window loop.
NextRender ==
    \/ MapPixel \/ CallMandelbrot \/ LoopIter \/ LoopExit \/ Colorize
    \/ SetPixel \/ LoadTexture \/ WindowLoop \/ PollEvent \/ Present

SpecRender == InitRender /\ [][NextRender]_vars

\* The visualizer's main loop, frame after frame.
NextAudio == PlayingOffset \/ DrawSample \/ BreakLoop \/ EndLoop

SpecAudio == InitAudio /\ [][NextAudio]_vars

\* The server's accept loop.
NextServer == Accept \/ Read \/ CloseAfterReadFailure \/ Write \/ Close

SpecServer == InitServer /\ [][NextServer]_vars

---------------------------------------------------------------------------
(* Properties *)

\* |w| > 2 and |w| >= 2.
AbsGt2(w) == AbsSq(w) > FourSq(w)
AbsGe2(w) == AbsSq(w) >= FourSq(w)

\* mandelbrot has returned.
Returned == pc \in {"ret", "colored"}

\* z after j iterations of the loop body.
Z(j) == zs[j + 1]

\* C1: for a budget >= 0 the counter is in [0, maxIterations] at every step
\* of the loop, and so is the value returned.
C1_ResultInRange ==
    maxIterations >= 0 => (iterations >= 0 /\ iterations <= maxIterations)

\* A point that used up a budget of at least 2.
C1_Witness ==
    pc = "ret" /\ maxIterations >= 2 /\ iterations = maxIterations

\* C2: a result k < maxIterations means |z| exceeded 2 at exactly step k:
\* |z_k| > 2, and |z_j| < 2 for every j < k.
C2_EscapedExceeds2 ==
    (Returned /\ maxIterations >= 0 /\ iterations < maxIterations) =>
        /\ AbsGt2(Z(iterations))
        /\ \A j \in 0..(iterations - 1) : ~AbsGe2(Z(j))

\* C3, as stated: a result equal to maxIterations means none of z_0 .. z_N
\* has magnitude >= 2, the value of the last iteration included.
C3_NeverEscaped ==
    (Returned /\ maxIterations >= 0 /\ iterations = maxIterations) =>
        \A j \in 0..maxIterations : ~AbsGe2(Z(j))

\* C3, amended: a result equal to maxIterations means none of z_0 .. z_(N-1)
\* has magnitude >= 2; z_N, the value of the last iteration, is not tested.
C3_BoundedBeforeLast ==
    (Returned /\ maxIterations >= 0 /\ iterations = maxIterations) =>
        \A j \in 0..(maxIterations - 1) : ~AbsGe2(Z(j))

\* A point returned as "in the set" whose last z has escaped.
C3_Witness ==
    /\ pc = "ret" /\ maxIterations >= 2 /\ iterations = maxIterations
    /\ AbsGt2(z)

\* C4, as stated: for |c| > 2 and a budget N >= 1 the result is below N.
C4_OutsideRadius2 ==
    (Returned /\ AbsGt2(c) /\ maxIterations >= 1) =>
        iterations < maxIterations

\* C4, amended: for |c| > 2 the result is 1, which is below the budget N
\* for N >= 2 and equal to it for N = 1.
C4_OutsideRadius2From2 ==
    (Returned /\ AbsGt2(c) /\ maxIterations >= 1) =>
        /\ iterations = 1
        /\ maxIterations >= 2 => iterations < maxIterations

\* A point outside the radius, run on the program's budget.
C4_Witness ==
    /\ pc = "ret" /\ AbsGt2(c) /\ maxIterations = MAX_ITERATIONS
    /\ iterations = 1

\* C5: on the origin z stays 0 at every step and the result is the budget:
\* the loop ends only because the counter reaches it.
C5_OriginNeverEscapes ==
    (c = CZero /\ maxIterations >= 0) =>
        /\ z = CZero
        /\ Returned => iterations = maxIterations

\* The origin, run on the program's budget.
C5_Witness ==
    /\ pc = "ret" /\ c = CZero /\ maxIterations = MAX_ITERATIONS
    /\ iterations = MAX_ITERATIONS /\ Len(zs) = MAX_ITERATIONS + 1

\* C6: an escaping count is coloured ((count*5) mod 256, (count*10) mod 256,
\* (count*15) mod 256).
C6_GradientMod256 ==
    (pc = "colored" /\ iterations # maxIterations) =>
        color = <<(iterations * 5) % 256, (iterations * 10) % 256,
                  (iterations * 15) % 256>>

\* C7: a pixel is black if and only if its count is maxIterations: the
\* budget yields black and no escaping count in 1 .. maxIterations-1 does.
C7_BlackIffInSet ==
    (pc = "colored" /\ iterations \in 1..maxIterations) =>
        (color = Black <=> iterations = maxIterations)

\* C8: for every count in 0 .. maxIterations the three channels are in
\* [0, 255], so the conversion to the 8-bit colour changes none of them.
C8_ChannelsInRange ==
    (pc = "colored" /\ iterations \in 0..maxIterations) =>
        /\ \A k \in 1..3 : rgb[k] \in 0..255 /\ color[k] \in 0..255
        /\ color = rgb

\* The count 50: r = 250, g = 500 mod 255, b = 750 mod 255.
C8_Witness ==
    /\ pc = "colored" /\ iterations = 50 /\ maxIterations = MAX_ITERATIONS
    /\ color = <<250, 245, 240>>

\* A pixel of the grid maps into [reStart, reEnd) x [imStart, imEnd),
\* pixel (0,0) maps to (reStart, imStart) exactly, and no other pixel of the
\* grid maps to the same point.
MapsInViewport ==
    /\ RLe(Bound(vp, vp.reStart), pt.re) /\ RLt(pt.re, Bound(vp, vp.reEnd))
    /\ RLe(Bound(vp, vp.imStart), pt.im) /\ RLt(pt.im, Bound(vp, vp.imEnd))
    /\ (px = 0 /\ py = 0) =>
           /\ REq(pt.re, Bound(vp, vp.reStart))
           /\ REq(pt.im, Bound(vp, vp.imStart))
    /\ \A x2 \in 0..(vp.width - 1), y2 \in 0..(vp.height - 1) :
           (x2 # px \/ y2 # py) =>
               \/ ~REq(MapPixelToPoint(x2, y2, vp).re, pt.re)
               \/ ~REq(MapPixelToPoint(x2, y2, vp).im, pt.im)

C10_InvalidRejected ==
    maxIterations < 1 => ~Returned

\* C11: when window.display() is first called, and from then on, every
\* pixel of the grid has been written exactly once, with the colour computed
\* from mandelbrot on its own mapped point, and the texture presented is
\* that image; no pixel is written twice, and a written pixel holds a
\* colour that depends on its own (x, y) only, whatever was written before.
C11_FrameCompleteBeforeDisplay ==
    /\ \A p \in Pixels(vp) :
          /\ writes[p] <= 1
          /\ writes[p] = 1 => image[p] = PixelColor(p[1], p[2], vp, maxIterations)
    /\ displays >= 1 =>
          /\ \A p \in Pixels(vp) : writes[p] = 1
          /\ texture = image

\* A frame of 3 x 3 pixels presented twice, with pixels in and out of the set.
C11_Witness ==
    /\ displays = 2 /\ vp.width = 3 /\ vp.height = 3 /\ maxIterations = 2
    /\ \E p \in Pixels(vp), q \in Pixels(vp) :
          image[p] = Black /\ image[q] # Black

\* C12: every index used to read the sample array, sampleIndex * channels,
\* is strictly less than numSamples, and so is currentSampleIndex once it
\* has been clamped.
C12_IndexInBounds ==
    /\ readIndex # NoIndex => ULt(readIndex, numSamples)
    /\ apc = "for" => ULt(currentSampleIndex, numSamples)

\* C13: in the accept loop at most one client connection is open at any
\* time, and it is the one accepted last; no connection is closed twice,
\* and whenever accept is called every connection accepted before has been
\* closed exactly once, after a failed read as after a response; the
\* response is written at most once per connection and only after a
\* successful read; the loop is left and the listening socket closed by
\* no failed accept or read (only by the end of the process in write).
C13_OneConnectionClosedOnce ==
    /\ Cardinality({k \in DOMAIN conns : conns[k].open}) <= 1
    /\ \A k \in DOMAIN conns :
          /\ conns[k].open => k = new_socket
          /\ conns[k].closes <= 1
          /\ conns[k].responses <= 1
          /\ conns[k].responses = 1 => conns[k].readOk
          /\ spc = "accept" => ~conns[k].open /\ conns[k].closes = 1
    /\ spc \in {"accept", "read", "readfail", "write", "close"} => serverFdOpen
    /\ spc = "killed" =>
          /\ conns # <<>>
          /\ conns[Len(conns)].readOk /\ conns[Len(conns)].responses = 1

\* Back at accept after a connection closed on a failed read and another
\* closed after its response, the listening socket open.
C13_Witness ==
    /\ spc = "accept" /\ serverFdOpen /\ new_socket = -1
    /\ \E j \in DOMAIN conns, k \in DOMAIN conns :
          /\ ~conns[j].readOk /\ conns[j].closes = 1 /\ conns[j].responses = 0
          /\ conns[k].readOk /\ conns[k].closes = 1 /\ conns[k].responses = 1

=============================================================================
